---------------------------- MODULE Spec2Model ----------------------------
(***************************************************************************)
(* A model of analysis/mercury-timed-resonance.py: the generation of the   *)
(* candidate resonances of a period ratio, the folding of the resonant     *)
(* angles, and the sweep that records, per inner planet, the resonances    *)
(* found in successive sliding windows.                                    *)
(*                                                                         *)
(* Conventions.  Planets are numbered from 1 (planet p here is index p-1   *)
(* of the script's lists); sample indices (instant_index, range_start,     *)
(* the index ranges of the log) keep the script's 0-based values.  A       *)
(* Fraction is the pair <<numerator, denominator>>.  Real numbers (period  *)
(* ratios) are exact rationals; angles are whole degrees.                  *)
(***************************************************************************)
EXTENDS Integers, Sequences, FiniteSets

(***************************************************************************)
(* Parameters of the script (lines 26-40).                                 *)
(***************************************************************************)
NUMBER_OF_VALUES == 10

DENOMINATOR_LIMIT == 12

UNCERTAINTY == 5

NB_LAST_POINTS_DEFAULT == 200

NB_MEASUREMENTS_DEFAULT == 500

ANGLE_MIN == -180

ANGLE_MAX == 180

(***************************************************************************)
(* Bounds of the model.                                                    *)
(***************************************************************************)
\* period ratios are drawn from the grid n / RatioGrid
RatioGrid == 100

\* the largest n of the grid of period ratios
MaxRatio == 330

\* angles are drawn from -AngleBound .. AngleBound degrees
AngleBound == 800

\* the number of planet files read (len(liste_aei))
NbPlanets == 3

\* the two series lengths a planet file may have
ShortSeries == 203

LongSeries == 604

\* the value of the argument sample=..., when it is given
SmallSample == 3

\* the data sets drawn are those whose sweep has at most this many windows
\* and scans at most this many pairs
MaxPairScans == 3

\* isResonance accepts candidates among the first MaxLibrating of the list only
MaxLibrating == 2

(***************************************************************************)
(* Exact rational arithmetic, standing for the script's float arithmetic   *)
(* and for fractions.Fraction.                                             *)
(***************************************************************************)
Abs(x) == IF x < 0 THEN -x ELSE x

Max(x, y) == IF x < y THEN y ELSE x

Min(x, y) == IF x < y THEN x ELSE y

RECURSIVE GCD(_, _)
GCD(x, y) == IF y = 0 THEN Abs(x) ELSE GCD(y, x % y)

LCM(x, y) == (x \div GCD(x, y)) * y

\* Fraction(n, d): the constructor reduces to lowest terms, denominator > 0
Fraction(n, d) ==
  LET g == GCD(n, d)
      s == IF d < 0 THEN -1 ELSE 1
  IN  <<(s * n) \div g, (s * d) \div g>>

numerator(f) == f[1]

denominator(f) == f[2]

RAdd(f, h) ==
  LET l == LCM(f[2], h[2])
  IN  Fraction(f[1] * (l \div f[2]) + h[1] * (l \div h[2]), l)

RSub(f, h) == RAdd(f, <<-h[1], h[2]>>)

RMul(f, h) ==
  LET g1 == GCD(f[1], h[2])
      g2 == GCD(h[1], f[2])
  IN  Fraction((f[1] \div g1) * (h[1] \div g2), (f[2] \div g2) * (h[2] \div g1))

RAbs(f) == <<Abs(f[1]), f[2]>>

RLess(f, h) ==
  LET l == LCM(f[2], h[2])
  IN  f[1] * (l \div f[2]) < h[1] * (l \div h[2])

RLeq(f, h) == ~RLess(h, f)

(***************************************************************************)
(* Fraction.limit_denominator(max_denominator), as the standard library    *)
(* computes it: the continued-fraction expansion is followed while the     *)
(* denominator stays within the limit, then the closer of the last         *)
(* convergent and the last semi-convergent is returned.                    *)
(***************************************************************************)
RECURSIVE LimitLoop(_, _, _, _, _, _, _, _)
LimitLoop(self, max_denominator, p0, q0, p1, q1, n, d) ==
  LET a  == n \div d
      q2 == q0 + a * q1
  IN  IF q2 > max_denominator
      THEN LET k      == (max_denominator - q0) \div q1
               bound1 == Fraction(p0 + k * p1, q0 + k * q1)
               bound2 == Fraction(p1, q1)
           IN  IF RLeq(RAbs(RSub(bound2, self)), RAbs(RSub(bound1, self)))
               THEN bound2
               ELSE bound1
      ELSE LimitLoop(self, max_denominator, p1, q1, p0 + a * p1, q2, d, n - a * d)

limit_denominator(self, max_denominator) ==
  IF denominator(self) <= max_denominator
  THEN self
  ELSE LimitLoop(self, max_denominator, 0, 1, 1, 0, numerator(self), denominator(self))

(***************************************************************************)
(* get_possible_resonances (lines 42-75).                                  *)
(***************************************************************************)
uncertainty == Fraction(UNCERTAINTY, 100)

\* lines 43-54: the NUMBER_OF_VALUES sampled period ratios
periods(periodRatio) ==
  LET lo          == RMul(periodRatio, RSub(<<1, 1>>, uncertainty))
      periodMax   == RMul(periodRatio, RAdd(<<1, 1>>, uncertainty))
      periodMin   == IF RLess(lo, <<1, 1>>) THEN <<1, 1>> ELSE lo
      periodWidth == RSub(periodMax, periodMin)
      deltaPeriod == RMul(periodWidth, <<1, NUMBER_OF_VALUES>>)
  IN  [i \in 1..NUMBER_OF_VALUES |-> RAdd(periodMin, RMul(deltaPeriod, <<i - 1, 1>>))]

\* lines 56-62: one fraction per sampled value, as a set (list(set(...)))
FractionsOf(ps) == {limit_denominator(ps[i], DENOMINATOR_LIMIT) : i \in DOMAIN ps}

\* the order of the values alone, as if the list of fractions itself were sorted
ValueLess(f, h) == RLess(f, h)

\* lines 65-66: the order of the tuples (res.numerator, res)
TupleLess(f, h) ==
  \/ numerator(f) < numerator(h)
  \/ numerator(f) = numerator(h) /\ RLess(f, h)

\* lines 65-67: tmp.sort() and the list of the second components
RECURSIVE SortedList(_)
SortedList(S) ==
  IF S = {} THEN <<>>
  ELSE LET first == CHOOSE f \in S : \A h \in S \ {f} : TupleLess(f, h)
       IN  <<first>> \o SortedList(S \ {first})

get_possible_resonances(periodRatio) == SortedList(FractionsOf(periods(periodRatio)))

(***************************************************************************)
(* The angle folding of isResonance (lines 103-108 and 111-115), on one    *)
(* angle: modulo 360, then the two corrections, whose masks are both taken *)
(* from the value after the modulo.                                        *)
(***************************************************************************)
\* the folding without the correction of the values above ANGLE_MAX
FoldLowOnly(angle) ==
  LET m == angle % 360
  IN  IF m < ANGLE_MIN THEN m + 360 ELSE m

Fold(angle) ==
  LET m        == angle % 360
      too_low  == m < ANGLE_MIN
      too_high == m > ANGLE_MAX
      lifted   == IF too_low THEN m + 360 ELSE m
  IN  IF too_high THEN lifted - 360 ELSE lifted

VARIABLES
  \* ---- the run of the script
  pc,               \* the place of the run in the script
  error,            \* the exception that ended the run, if any
  lengths,          \* per planet, the number of samples of its series (t[planet].size)
  planet_names,     \* per planet, the file it was read from
  id_min, id_max,   \* the bounds of the time range, as sample indices
  nb_planets,
  max_lengths, time_delay,
  NB_LAST_POINTS, NB_MEASUREMENTS,
  instant_index,
  still_here_planets, planet_index_sorted_by_distance, ordering_planets,
  pair,             \* the place of the loop of line 333 in its zip
  inner, outer, periodRatio_begin, periodRatio_end,
  index, is_resonance,
  resonance_type, resonance_index_range, resonance_with, resonance_inner_rank,
  nb_order_samples, \* per planet, len(dynamic_order[planet]) = len(time_order[planet])
  \* ---- inputs and history of the run, not variables of the script
  windows,          \* the index ranges [range_start, range_stop] of the windows swept so far
  librating,        \* the candidates isResonance accepts on the pair scanned last, if it is called
  detected,         \* per planet, the last detection it was the inner planet of
  \* ---- the pure functions, called on their own
  periodRatio,      \* the argument of get_possible_resonances
  resonances,       \* its result
  phi,              \* an angle before the folding
  folded,           \* the angle after the folding
  refolded          \* the folded angle, folded once more

config == <<lengths, planet_names, id_min, id_max, nb_planets, max_lengths,
            time_delay, NB_LAST_POINTS, NB_MEASUREMENTS>>

window == <<windows, still_here_planets, planet_index_sorted_by_distance,
            ordering_planets>>

locals == <<inner, outer, periodRatio_begin, periodRatio_end, index, is_resonance,
            resonances, librating>>

logs == <<resonance_type, resonance_index_range, resonance_with, resonance_inner_rank>>

pure == <<periodRatio, phi, folded, refolded>>

vars == <<pc, error, config, instant_index, window, pair, locals, logs,
          nb_order_samples, detected, pure>>

None == "none"

\* an integer variable of the script that is not assigned yet
Undefined == 0 - 1

\* the value of detected for a planet that was the inner planet of no detection so far
NoDetection == [instant |-> Undefined, res |-> <<>>, outer |-> 0]

\* the variables of the run, before the run or when there is none
RunIdle ==
  /\ error = None
  /\ lengths = <<>> /\ planet_names = <<>> /\ id_min = 0 /\ id_max = 0
  /\ nb_planets = 0 /\ max_lengths = Undefined /\ time_delay = Undefined
  /\ NB_LAST_POINTS = NB_LAST_POINTS_DEFAULT
  /\ NB_MEASUREMENTS = NB_MEASUREMENTS_DEFAULT
  /\ instant_index = Undefined
  /\ windows = <<>>
  /\ still_here_planets = <<>> /\ planet_index_sorted_by_distance = <<>>
  /\ ordering_planets = <<>> /\ pair = Undefined
  /\ inner = Undefined /\ outer = Undefined
  /\ periodRatio_begin = <<>> /\ periodRatio_end = <<>>
  /\ index = Undefined /\ is_resonance = FALSE
  /\ resonance_type = <<>> /\ resonance_index_range = <<>>
  /\ resonance_with = <<>> /\ resonance_inner_rank = <<>>
  /\ nb_order_samples = <<>>
  /\ librating = {} /\ detected = <<>>

run == <<error, config, instant_index, window, pair, inner, outer,
         periodRatio_begin, periodRatio_end, index, is_resonance, librating,
         logs, nb_order_samples, detected>>

(***************************************************************************)
(* get_possible_resonances on every period ratio of the grid.              *)
(***************************************************************************)
InitResonances ==
  /\ pc = "call"
  /\ periodRatio \in {Fraction(n, RatioGrid) : n \in RatioGrid..MaxRatio}
  /\ resonances = <<>>
  /\ phi = 0 /\ folded = 0 /\ refolded = 0
  /\ RunIdle

CallResonances ==
  /\ pc = "call"
  /\ resonances' = get_possible_resonances(periodRatio)
  /\ pc' = "returned"
  /\ UNCHANGED <<run, periodRatio, phi, folded, refolded>>

SpecResonances == InitResonances /\ [][CallResonances]_vars

(***************************************************************************)
(* The folding on every whole angle of the bound, and once more on its     *)
(* own result.                                                             *)
(***************************************************************************)
InitFold ==
  /\ pc = "fold"
  /\ phi \in (-AngleBound)..AngleBound
  /\ folded = 0 /\ refolded = 0
  /\ periodRatio = <<>> /\ resonances = <<>>
  /\ RunIdle

FoldAngle ==
  /\ pc = "fold"
  /\ folded' = Fold(phi)
  /\ pc' = "folded"
  /\ UNCHANGED <<run, periodRatio, resonances, phi, refolded>>

FoldAgain ==
  /\ pc = "folded"
  /\ refolded' = Fold(folded)
  /\ pc' = "refolded"
  /\ UNCHANGED <<run, periodRatio, resonances, phi, folded>>

NextFold == FoldAngle \/ FoldAgain

SpecFold == InitFold /\ [][NextFold]_vars

(***************************************************************************)
(* The run of the script.  Helpers first.                                  *)
(***************************************************************************)
RECURSIVE MaxOfSeq(_)
MaxOfSeq(s) == IF Len(s) = 1 THEN s[1] ELSE Max(s[1], MaxOfSeq(Tail(s)))

\* len(x[lo:hi]) for a list of n elements and 0 <= lo, 0 <= hi
SliceLen(n, lo, hi) == Max(0, Min(hi, n) - Min(lo, n))

\* del(s[i])
DelAt(s, i) == [k \in 1..(Len(s) - 1) |-> IF k < i THEN s[k] ELSE s[k + 1]]

\* lines 238-247: the planets from `planet` down to the first, those whose
\* series is empty deleted from every list; ls is <<lengths, planet_names>>
RECURSIVE RemoveLoop(_, _)
RemoveLoop(ls, planet) ==
  IF planet = 0 THEN ls
  ELSE IF ls[1][planet] = 0
       THEN RemoveLoop(<<DelAt(ls[1], planet), DelAt(ls[2], planet)>>, planet - 1)
       ELSE RemoveLoop(ls, planet - 1)

\* lines 257-260
TimeDelayOf(nb_measurements, max_len) ==
  IF nb_measurements < max_len THEN max_len \div nb_measurements ELSE 1

\* the window length left as it is when the stride is larger
LastPointsKept(delay, nb_last_points) == nb_last_points

\* lines 264-267
LastPointsOf(delay, nb_last_points) ==
  IF delay > nb_last_points THEN delay ELSE nb_last_points

\* np.argsort of distinct distances: any order of 1..n may come out
Orders(n) == {f \in [1..n -> 1..n] : \A i, j \in 1..n : i # j => f[i] # f[j]}

\* np.argsort of a permutation: its inverse
ArgSort(f) == [i \in 1..Len(f) |-> CHOOSE k \in 1..Len(f) : f[k] = i]

\* lines 314-316: the planets whose series reaches instant
StillHere(lens, instant) ==
  LET keep(p) == lens[p] > instant
  IN  SelectSeq([p \in 1..Len(lens) |-> p], keep)

\* line 304
range_start_of(instant, nb_last_points) == instant - (nb_last_points - 1)

\* line 297: the instants of range(NB_LAST_POINTS, max_lengths, time_delay)
Instants(nb_last_points, max_len, delay) ==
  {i \in nb_last_points..(max_len - 1) : (i - nb_last_points) % delay = 0}

\* the number of pairs the sweep scans on series of these lengths
RECURSIVE SumPairs(_, _)
SumPairs(lens, instants) ==
  IF instants = {} THEN 0
  ELSE LET i == CHOOSE x \in instants : TRUE
       IN  Max(0, Len(StillHere(lens, i)) - 1) + SumPairs(lens, instants \ {i})

\* the number of pairs the sweep scans on these files with these arguments
\* (more than MaxPairScans when it has more than MaxPairScans windows)
PairScansOf(raw, lo, hi, nb_measurements) ==
  LET clipped == [p \in 1..Len(raw) |-> SliceLen(raw[p], lo, hi)]
      lens    == RemoveLoop(<<clipped, clipped>>, Len(raw))[1]
  IN  IF lens = <<>> THEN 0
      ELSE LET max_len == MaxOfSeq(lens)
               delay   == TimeDelayOf(nb_measurements, max_len)
               points  == LastPointsOf(delay, NB_LAST_POINTS_DEFAULT)
               all     == Instants(points, max_len, delay)
           IN  IF Cardinality(all) > MaxPairScans
               THEN MaxPairScans + 1
               ELSE SumPairs(lens, all)

(***************************************************************************)
(* The inputs of a pair scan.                                              *)
(***************************************************************************)
\* the period ratio of a pair at the end of a window
PeriodRatioChoices == {Fraction(3, 2)}

\* periodRatio_begin - periodRatio_end
DriftChoices == {<<0, 1>>, Fraction(3, 100)}

\* isResonance accepts candidates among the first MaxLibrating of the list only
LibratingChoices(candidates) ==
  SUBSET {candidates[i] : i \in 1..Min(MaxLibrating, Len(candidates))}

(***************************************************************************)
(* The steps of a pair scan.                                               *)
(***************************************************************************)
\* the gate with a threshold of 0.2 instead of 0.02
StabilityGateLoose(ratio_begin, ratio_end) ==
  RLess(Fraction(2, 10), RAbs(RSub(ratio_begin, ratio_end)))

\* line 347
StabilityGate(ratio_begin, ratio_end) ==
  RLess(Fraction(2, 100), RAbs(RSub(ratio_begin, ratio_end)))

\* the loop without its break: it ends on the last accepted candidate
WhileLoopLast(candidates, accepted, i) ==
  LET hits == {k \in i..(Len(candidates) - 1) : candidates[k + 1] \in accepted}
  IN  IF hits = {}
      THEN <<Max(i, Len(candidates)), FALSE>>
      ELSE <<CHOOSE k \in hits : \A h \in hits : h <= k, TRUE>>

\* lines 353-378: the index at which the while loop ends, and is_resonance there
RECURSIVE WhileLoop(_, _, _)
WhileLoop(candidates, accepted, i) ==
  IF i < Len(candidates)
  THEN IF candidates[i + 1] \in accepted
       THEN <<i, TRUE>>
       ELSE WhileLoop(candidates, accepted, i + 1)
  ELSE <<i, FALSE>>

\* the test of line 364 without its "- 1": windows that only touch do not merge
isExtendStrict(types, ranges, res, range_start) ==
  /\ Len(types) # 0
  /\ types[Len(types)] = res
  /\ ranges[Len(ranges)][2] >= range_start

\* the test of line 364 without the comparison of the resonances
isExtendAnyType(types, ranges, res, range_start) ==
  /\ Len(types) # 0
  /\ ranges[Len(ranges)][2] >= range_start - 1

\* the test of line 364 on the start of the last range instead of its end
isExtendOnStart(types, ranges, res, range_start) ==
  /\ Len(types) # 0
  /\ types[Len(types)] = res
  /\ ranges[Len(ranges)][1] >= range_start - 1

\* lines 358-365
isExtend(types, ranges, res, range_start) ==
  /\ Len(types) # 0
  /\ types[Len(types)] = res
  /\ ranges[Len(ranges)][2] >= range_start - 1

\* line 369
Extended(ranges, instant) ==
  [ranges EXCEPT ![Len(ranges)] = <<ranges[Len(ranges)][1], instant>>]

\* the new range with its two indices exchanged
NewRangeSwapped(range_start, range_stop) == <<range_stop, range_start>>

\* line 372
NewRange(range_start, range_stop) == <<range_start, range_stop>>

(***************************************************************************)
(* The run.                                                                *)
(***************************************************************************)
Init ==
  /\ pc = "clip"
  /\ error = None
  /\ \E n \in 1..NbPlanets : lengths \in [1..n -> {ShortSeries, LongSeries}]
  /\ planet_names = [p \in 1..Len(lengths) |-> p]
  /\ nb_planets = Len(lengths)
  /\ NB_MEASUREMENTS \in {NB_MEASUREMENTS_DEFAULT, SmallSample}
  /\ NB_LAST_POINTS = NB_LAST_POINTS_DEFAULT
  \* lines 210-227: t_min absent, or at the end of the short or of the long series
  /\ id_min \in {0, ShortSeries, LongSeries}
  \* t_max absent, or one sample before the end of the longest series
  /\ id_max \in {MaxOfSeq(lengths), MaxOfSeq(lengths) - 1}
  /\ PairScansOf(lengths, id_min, id_max, NB_MEASUREMENTS) <= MaxPairScans
  /\ max_lengths = Undefined /\ time_delay = Undefined
  /\ instant_index = Undefined
  /\ windows = <<>>
  /\ still_here_planets = <<>> /\ planet_index_sorted_by_distance = <<>>
  /\ ordering_planets = <<>> /\ pair = Undefined
  /\ inner = Undefined /\ outer = Undefined
  /\ periodRatio_begin = <<>> /\ periodRatio_end = <<>>
  /\ index = Undefined /\ is_resonance = FALSE
  /\ resonance_type = <<>> /\ resonance_index_range = <<>>
  /\ resonance_with = <<>> /\ resonance_inner_rank = <<>>
  /\ nb_order_samples = <<>>
  /\ librating = {} /\ detected = <<>>
  /\ resonances = <<>>
  /\ periodRatio = <<>> /\ phi = 0 /\ folded = 0 /\ refolded = 0

\* lines 229-235
Clip ==
  /\ pc = "clip"
  /\ lengths' = [p \in 1..nb_planets |-> SliceLen(lengths[p], id_min, id_max)]
  /\ pc' = "remove"
  /\ UNCHANGED <<error, planet_names, id_min, id_max, nb_planets, max_lengths,
                 time_delay, NB_LAST_POINTS, NB_MEASUREMENTS, instant_index,
                 window, pair, locals, logs, nb_order_samples, detected, pure>>

\* lines 238-250
RemovePlanets ==
  /\ pc = "remove"
  /\ LET kept == RemoveLoop(<<lengths, planet_names>>, nb_planets)
     IN  /\ lengths' = kept[1]
         /\ planet_names' = kept[2]
         /\ nb_planets' = Len(kept[1])
  /\ pc' = "configure"
  /\ UNCHANGED <<error, id_min, id_max, max_lengths,
                 time_delay, NB_LAST_POINTS, NB_MEASUREMENTS, instant_index,
                 window, pair, locals, logs, nb_order_samples, detected, pure>>

\* lines 253-267; max() of an empty list raises ValueError
Configure ==
  /\ pc = "configure"
  /\ IF lengths = <<>>
     THEN /\ pc' = "error"
          /\ error' = "ValueError"
          /\ UNCHANGED <<max_lengths, time_delay, NB_LAST_POINTS>>
     ELSE /\ max_lengths' = MaxOfSeq(lengths)
          /\ time_delay' = TimeDelayOf(NB_MEASUREMENTS, max_lengths')
          /\ NB_LAST_POINTS' = LastPointsOf(time_delay', NB_LAST_POINTS)
          /\ pc' = "order"
          /\ UNCHANGED error
  /\ UNCHANGED <<lengths, planet_names, id_min, id_max, nb_planets,
                 NB_MEASUREMENTS, instant_index,
                 window, pair, locals, logs, nb_order_samples, detected, pure>>

\* lines 277-297: the lists of the results, the first ranks, the first instant
InitialOrder ==
  /\ pc = "order"
  /\ resonance_index_range' = [p \in 1..nb_planets |-> <<>>]
  /\ resonance_type' = [p \in 1..nb_planets |-> <<>>]
  /\ resonance_with' = [p \in 1..nb_planets |-> <<>>]
  /\ resonance_inner_rank' = [p \in 1..nb_planets |-> <<>>]
  /\ detected' = [p \in 1..nb_planets |-> NoDetection]
  /\ nb_order_samples' = [p \in 1..nb_planets |-> 1]
  /\ \E sorted \in Orders(nb_planets) :
       /\ planet_index_sorted_by_distance' = sorted
       /\ ordering_planets' = ArgSort(sorted)
  /\ instant_index' = NB_LAST_POINTS
  /\ pc' = "sweep"
  /\ UNCHANGED <<error, config, windows, still_here_planets, pair, locals, pure>>

\* lines 297-331: the planets of the window, their order, their ranks
WindowStart ==
  /\ pc = "sweep"
  /\ instant_index < max_lengths
  \* lines 304-305
  /\ windows' = Append(windows, <<range_start_of(instant_index, NB_LAST_POINTS),
                                  instant_index>>)
  /\ LET here == StillHere(lengths, instant_index)
     IN  /\ still_here_planets' = here
         /\ \E sorted \in Orders(Len(here)) :
              /\ planet_index_sorted_by_distance' = sorted
              /\ ordering_planets' = ArgSort(sorted)
         /\ nb_order_samples' =
              [p \in 1..nb_planets |->
                 IF \E k \in 1..Len(here) : here[k] = p
                 THEN nb_order_samples[p] + 1
                 ELSE nb_order_samples[p]]
  /\ pair' = 1
  /\ pc' = "pairs"
  /\ UNCHANGED <<error, config, instant_index, locals, logs, detected, pure>>

\* lines 333-378: one pair of neighbours of the window
PairScan ==
  /\ pc = "pairs"
  /\ pair < Len(planet_index_sorted_by_distance)
  /\ inner' = planet_index_sorted_by_distance[pair]
  /\ outer' = planet_index_sorted_by_distance[pair + 1]
  /\ pair' = pair + 1
  /\ \E ratio_end \in PeriodRatioChoices, drift \in DriftChoices :
       /\ periodRatio_end' = ratio_end
       /\ periodRatio_begin' = RAdd(ratio_end, drift)
  /\ IF StabilityGate(periodRatio_begin', periodRatio_end')
     THEN /\ librating' = {}
          /\ UNCHANGED <<resonances, index, is_resonance, logs, detected>>
     ELSE /\ resonances' = get_possible_resonances(periodRatio_end')
          /\ librating' \in LibratingChoices(resonances')
          /\ LET loop        == WhileLoop(resonances', librating', 0)
                 planet      == still_here_planets[inner']
                 res         == resonances'[loop[1] + 1]
                 range_start == range_start_of(instant_index, NB_LAST_POINTS)
                 range_stop  == instant_index
             IN  /\ index' = loop[1]
                 /\ is_resonance' = loop[2]
                 /\ IF ~loop[2]
                    THEN UNCHANGED <<logs, detected>>
                    ELSE /\ detected' = [detected EXCEPT ![planet] =
                                [instant |-> instant_index, res |-> res,
                                 outer |-> still_here_planets[outer']]]
                         /\ IF isExtend(resonance_type[planet],
                                        resonance_index_range[planet], res, range_start)
                            THEN /\ resonance_index_range' =
                                      [resonance_index_range EXCEPT ![planet] =
                                         Extended(@, instant_index)]
                                 /\ UNCHANGED <<resonance_type, resonance_with,
                                                resonance_inner_rank>>
                            ELSE /\ resonance_type' =
                                      [resonance_type EXCEPT ![planet] = Append(@, res)]
                                 /\ resonance_index_range' =
                                      [resonance_index_range EXCEPT ![planet] =
                                         Append(@, NewRange(range_start, range_stop))]
                                 /\ resonance_with' =
                                      [resonance_with EXCEPT ![planet] =
                                         Append(@, still_here_planets[outer'])]
                                 /\ resonance_inner_rank' =
                                      [resonance_inner_rank EXCEPT ![planet] =
                                         Append(@, ordering_planets[inner'])]
  /\ UNCHANGED <<pc, error, config, instant_index, window, nb_order_samples, pure>>

\* line 297: the pairs of the window are done, the next instant of the range
NextWindow ==
  /\ pc = "pairs"
  /\ pair >= Len(planet_index_sorted_by_distance)
  /\ instant_index' = instant_index + time_delay
  /\ pc' = "sweep"
  /\ UNCHANGED <<error, config, window, pair, locals, logs, nb_order_samples,
                 detected, pure>>

\* line 297: the range is exhausted
EndSweep ==
  /\ pc = "sweep"
  /\ instant_index >= max_lengths
  /\ pc' = "done"
  /\ UNCHANGED <<error, config, instant_index, window, pair, locals, logs,
                 nb_order_samples, detected, pure>>

Next ==
  \/ Clip
  \/ RemovePlanets
  \/ Configure
  \/ InitialOrder
  \/ WindowStart
  \/ PairScan
  \/ NextWindow
  \/ EndSweep

Spec == Init /\ [][Next]_vars

(***************************************************************************)
(* The log of the resonances (under Spec).                                 *)
(***************************************************************************)
LastOf(s) == s[Len(s)]

AllButLast(s) == SubSeq(s, 1, Len(s) - 1)

\* a step of the run that scans one pair of a window
ScanStep == pc = "pairs" /\ pair' = pair + 1

\* a step of the run in which isResonance accepts a candidate
DetectionStep == ScanStep /\ detected' # detected

\* the last entry of the log of planet p gets instant_index as its end, and
\* nothing else of the log changes
ExtendsLast(p) ==
  /\ resonance_type' = resonance_type
  /\ resonance_with' = resonance_with
  /\ resonance_inner_rank' = resonance_inner_rank
  /\ \A q \in 1..nb_planets : q # p => resonance_index_range'[q] = resonance_index_range[q]
  /\ Len(resonance_index_range'[p]) = Len(resonance_index_range[p])
  /\ AllButLast(resonance_index_range'[p]) = AllButLast(resonance_index_range[p])
  /\ LastOf(resonance_index_range'[p]) =
       <<LastOf(resonance_index_range[p])[1], instant_index>>

\* the log of planet p gets one more entry, (res, the window, with, rank), and
\* nothing else of the log changes
AppendsEntry(p, res, with, rank) ==
  /\ resonance_type' = [resonance_type EXCEPT ![p] = Append(@, res)]
  /\ resonance_index_range' =
       [resonance_index_range EXCEPT
          ![p] = Append(@, <<instant_index - (NB_LAST_POINTS - 1), instant_index>>)]
  /\ resonance_with' = [resonance_with EXCEPT ![p] = Append(@, with)]
  /\ resonance_inner_rank' = [resonance_inner_rank EXCEPT ![p] = Append(@, rank)]

\* C1: when two consecutive windows detect the same resonance for an inner
\* planet with the same outer planet, and the second window starts at most one
\* index after the end of the planet's last entry, the second detection appends
\* nothing: the last entry keeps its start and gets the second window's end.
C1_ConsecutiveDetectionsMerge ==
  [][DetectionStep =>
       LET p    == still_here_planets[inner']
           prev == detected[p]
           now  == detected'[p]
       IN  (/\ prev.instant = instant_index - time_delay
            /\ prev.res = now.res
            /\ prev.outer = now.outer
            /\ instant_index - (NB_LAST_POINTS - 1)
                 <= LastOf(resonance_index_range[p])[2] + 1)
           => ExtendsLast(p)]_vars

\* one entry covers two windows whose detections agree on the outer planet
C1_MergedEntry ==
  \E p \in 1..Len(resonance_type) :
    /\ Len(resonance_type[p]) = 1
    /\ resonance_index_range[p][1] =
         <<instant_index - time_delay - (NB_LAST_POINTS - 1), instant_index>>
    /\ detected[p].instant = instant_index
    /\ detected[p].outer = resonance_with[p][1]

\* C2: a detection of R with the outer planet O extends the last entry of the
\* inner planet only if that entry has the resonance R, the recorded outer
\* planet O and an end >= window start - 1; in every other case the entry
\* (R, the window, O, rank) is appended.
C2_ExtendsOnlySameOuter ==
  [][DetectionStep =>
       LET p   == still_here_planets[inner']
           now == detected'[p]
           mergeable ==
             /\ Len(resonance_type[p]) # 0
             /\ LastOf(resonance_type[p]) = now.res
             /\ LastOf(resonance_with[p]) = now.outer
             /\ LastOf(resonance_index_range[p])[2]
                  >= instant_index - (NB_LAST_POINTS - 1) - 1
       IN  IF mergeable
           THEN ExtendsLast(p)
           ELSE AppendsEntry(p, now.res, now.outer, ordering_planets[inner'])]_vars

\* C3: when a window detects, for an inner planet and the outer planet of its
\* previous detection, a resonance other than the one of that detection, the
\* entry (R2, the window, outer, rank) is appended and the entries the log
\* had, the one of R1 among them, stay as they were.
C3_OtherResonanceAppends ==
  [][DetectionStep =>
       LET p    == still_here_planets[inner']
           prev == detected[p]
           now  == detected'[p]
       IN  (/\ prev.instant # Undefined
            /\ prev.res # now.res
            /\ prev.outer = now.outer)
           => AppendsEntry(p, now.res, now.outer, ordering_planets[inner'])]_vars

\* a log holds two entries in a row of two resonances with the same outer planet
C3_TwoResonancesLogged ==
  \E p \in 1..Len(resonance_type) :
    \E k \in 1..(Len(resonance_type[p]) - 1) :
      /\ resonance_type[p][k] # resonance_type[p][k + 1]
      /\ resonance_with[p][k] = resonance_with[p][k + 1]
      /\ resonance_index_range[p][k][2] < resonance_index_range[p][k + 1][2]

\* two index ranges [start, end] that share an index
Overlap(r1, r2) == r1[1] <= r2[2] /\ r2[1] <= r1[2]

SameResonanceAndOuter(p, i, j) ==
  /\ resonance_type[p][i] = resonance_type[p][j]
  /\ resonance_with[p][i] = resonance_with[p][j]

\* C4, as stated: in the log of a planet, no two entries with the same
\* resonance and the same recorded outer planet have overlapping index ranges.
C4_NoOverlapSameResonance ==
  \A p \in 1..Len(resonance_type) :
    \A i, j \in 1..Len(resonance_type[p]) :
      (i < j /\ SameResonanceAndOuter(p, i, j))
        => ~Overlap(resonance_index_range[p][i], resonance_index_range[p][j])

\* C4, amended: in the log of a planet, no two consecutive entries with the
\* same resonance and the same recorded outer planet have overlapping index
\* ranges (the later one starts at least two indices after the end of the
\* earlier one); entries that an entry of another resonance separates may
\* overlap.
C4_NoOverlapConsecutiveSameResonance ==
  \A p \in 1..Len(resonance_type) :
    \A k \in 1..(Len(resonance_type[p]) - 1) :
      SameResonanceAndOuter(p, k, k + 1)
        => /\ ~Overlap(resonance_index_range[p][k], resonance_index_range[p][k + 1])
           /\ resonance_index_range[p][k][2] + 1 < resonance_index_range[p][k + 1][1]

\* a log holds two entries in a row of one resonance with one outer planet
C4_SameResonanceLoggedAgain ==
  \E p \in 1..Len(resonance_type) :
    \E k \in 1..(Len(resonance_type[p]) - 1) : SameResonanceAndOuter(p, k, k + 1)

\* C5: in the log of a planet the entries are in chronological order (neither
\* the starts nor the ends decrease from an entry to the next) and every entry
\* has start <= end.
C5_ChronologicalOrder ==
  \A p \in 1..Len(resonance_index_range) :
    LET ranges == resonance_index_range[p]
    IN  /\ \A k \in 1..Len(ranges) : ranges[k][1] <= ranges[k][2]
        /\ \A k \in 1..(Len(ranges) - 1) :
             /\ ranges[k][1] <= ranges[k + 1][1]
             /\ ranges[k][2] <= ranges[k + 1][2]

\* the sweep is over and a log holds several entries, the last one extended
C5_SeveralEntriesLogged ==
  /\ pc = "done"
  /\ \E p \in 1..Len(resonance_index_range) :
       /\ Len(resonance_index_range[p]) >= 2
       /\ LastOf(resonance_index_range[p])[2] - LastOf(resonance_index_range[p])[1]
            > NB_LAST_POINTS - 1

\* the four lists of the log of planet p are left as they were
LogUnchanged(p) ==
  /\ resonance_type'[p] = resonance_type[p]
  /\ resonance_index_range'[p] = resonance_index_range[p]
  /\ resonance_with'[p] = resonance_with[p]
  /\ resonance_inner_rank'[p] = resonance_inner_rank[p]

\* the places, in the list of candidates, of those isResonance accepts
Positives(candidates, accepted) ==
  {i \in 1..Len(candidates) : candidates[i] \in accepted}

\* C6: the scan of a pair tests the candidates in the order of the list and
\* stops at the first one isResonance accepts: the log of the inner planet
\* changes at most once per window, by one extension or one append, the
\* resonance recorded is that first accepted candidate, no later one is
\* recorded, and no other planet's log changes.
C6_FirstPositiveCandidateWins ==
  [][ScanStep =>
       LET p         == still_here_planets[inner']
           positives == Positives(resonances', librating')
       IN  /\ detected[p].instant < instant_index
           /\ \A q \in 1..nb_planets : q # p => LogUnchanged(q)
           /\ positives = {} => LogUnchanged(p)
           /\ positives # {} =>
                LET first == CHOOSE i \in positives : \A j \in positives : i <= j
                IN  /\ index' = first - 1
                    /\ is_resonance'
                    /\ detected'[p].instant = instant_index
                    /\ LastOf(resonance_type'[p]) = resonances'[first]
                    /\ \/ ExtendsLast(p)
                       \/ AppendsEntry(p, resonances'[first],
                                       still_here_planets[outer'],
                                       ordering_planets[inner'])]_vars

\* isResonance would accept two candidates of a pair, and the first one is recorded
C6_TwoPositiveCandidates ==
  /\ pc = "pairs"
  /\ pair > 1
  /\ Cardinality(Positives(resonances, librating)) >= 2
  /\ index = 0
  /\ is_resonance
  /\ LastOf(resonance_type[still_here_planets[inner]]) = resonances[1]

\* C7: when the period ratio of a pair differs by more than 0.02 between the
\* two ends of the window, or isResonance accepts no candidate, the scan of the
\* pair leaves the log of the inner planet (resonances, index ranges, outer
\* planets, ranks) as it was; an existing last entry keeps its end.
C7_NoDetectionLeavesLog ==
  [][ScanStep =>
       LET p     == still_here_planets[inner']
           drift == RAbs(RSub(periodRatio_begin', periodRatio_end'))
       IN  (\/ RLess(<<1, 50>>, drift)
            \/ Positives(resonances', librating') = {})
           => LogUnchanged(p)]_vars

\* the gate skipped a pair whose inner planet has an entry in its log
C7_GateSkippedLoggedPlanet ==
  /\ pc = "pairs"
  /\ pair > 1
  /\ RLess(<<1, 50>>, RAbs(RSub(periodRatio_begin, periodRatio_end)))
  /\ librating = {}
  /\ resonance_type[still_here_planets[inner]] # <<>>
  /\ detected[still_here_planets[inner]].instant < instant_index

\* C10: when the removal pass leaves no planet, the run ends with an empty
\* result and in no error: no step after the removal pass fails.
C10_EmptyRunEndsWithoutError ==
  (pc \notin {"clip", "remove"} /\ nb_planets = 0) => error = None

\* the run is past lines 253-267
Configured == pc \in {"order", "sweep", "pairs", "done"}

\* C11: after the configuration the stride time_delay is max_lengths div
\* NB_MEASUREMENTS when NB_MEASUREMENTS < max_lengths and 1 otherwise, and the
\* window length NB_LAST_POINTS is never smaller than it; so each window of
\* the sweep starts at most one index after the end of the window before it,
\* and every index from the start of the first window to the end of the last
\* one lies in a window.
C11_WindowsCoverTheSweep ==
  Configured =>
    /\ time_delay = IF NB_MEASUREMENTS < max_lengths
                    THEN max_lengths \div NB_MEASUREMENTS
                    ELSE 1
    /\ NB_LAST_POINTS >= time_delay
    /\ \A k \in 1..(Len(windows) - 1) :
         /\ windows[k + 1][2] = windows[k][2] + time_delay
         /\ windows[k + 1][1] <= windows[k][2] + 1
    /\ (pc = "done" /\ windows # <<>>) =>
         (windows[1][1]..LastOf(windows)[2])
           \subseteq UNION {windows[k][1]..windows[k][2] : k \in 1..Len(windows)}

\* the sweep is over, the window length was raised to the stride, and the
\* windows swept touch without overlapping
C11_WindowRaisedToStride ==
  /\ pc = "done"
  /\ time_delay > NB_LAST_POINTS_DEFAULT
  /\ NB_LAST_POINTS = time_delay
  /\ Len(windows) >= 2
  /\ windows[2][1] = windows[1][2] + 1

\* C12: for every entry of the log of a planet, the planet and the outer
\* planet the entry records both have a sample at the start index and at the
\* end index of the entry (start >= 0 and end < the length of the series of
\* each), so a[outer][id_begin] and a[outer][id_end] exist when the ranges
\* are drawn.
C12_EntriesIndexBothSeries ==
  \A p \in 1..Len(resonance_index_range) :
    \A k \in 1..Len(resonance_index_range[p]) :
      LET id_begin == resonance_index_range[p][k][1]
          id_end   == resonance_index_range[p][k][2]
          with     == resonance_with[p][k]
      IN  /\ 0 <= id_begin
          /\ id_end < lengths[p]
          /\ id_end < lengths[with]

(***************************************************************************)
(* The candidate resonances (under SpecResonances).                        *)
(***************************************************************************)
LowestTerms(f) ==
  /\ denominator(f) \in 1..DENOMINATOR_LIMIT
  /\ GCD(numerator(f), denominator(f)) = 1

NoDuplicate(s) == \A i, j \in 1..Len(s) : i # j => s[i] # s[j]

\* C8, as stated: the list returned for a period ratio >= 1 is strictly sorted
\* by numerator (no two candidates share a numerator), holds no value twice,
\* and each candidate is in lowest terms with a denominator <= DENOMINATOR_LIMIT.
C8_StrictlySortedByNumerator ==
  pc = "returned" =>
    /\ \A i \in 1..(Len(resonances) - 1) :
         numerator(resonances[i]) < numerator(resonances[i + 1])
    /\ NoDuplicate(resonances)
    /\ \A i \in 1..Len(resonances) : LowestTerms(resonances[i])

\* C8, amended: the list returned for a period ratio >= 1 is sorted by
\* numerator without being strictly so: numerators never decrease, candidates
\* that share a numerator come in increasing value; the list holds no value
\* twice, and each candidate is in lowest terms with a denominator
\* <= DENOMINATOR_LIMIT.
C8_SortedByNumeratorThenValue ==
  pc = "returned" =>
    /\ Len(resonances) >= 1
    /\ \A i \in 1..(Len(resonances) - 1) :
         \/ numerator(resonances[i]) < numerator(resonances[i + 1])
         \/ /\ numerator(resonances[i]) = numerator(resonances[i + 1])
            /\ denominator(resonances[i]) > denominator(resonances[i + 1])
    /\ NoDuplicate(resonances)
    /\ \A i \in 1..Len(resonances) : LowestTerms(resonances[i])

\* a list was returned in which two candidates share a numerator
C8_SharedNumeratorReturned ==
  /\ pc = "returned"
  /\ \E i \in 1..(Len(resonances) - 1) :
       numerator(resonances[i]) = numerator(resonances[i + 1])

(***************************************************************************)
(* The folding of the angles (under SpecFold).                             *)
(***************************************************************************)
\* C9, as stated: the folding maps every angle into [-180, 180) and returns
\* an already folded value unchanged.
C9_FoldsIntoHalfOpenBelow ==
  pc = "refolded" =>
    /\ ANGLE_MIN <= folded /\ folded < ANGLE_MAX
    /\ refolded = folded

\* C9, amended: the folding maps every angle to the angle of (-180, 180] that
\* is congruent to it modulo 360 (so -180 and the angles congruent to 180 are
\* mapped to 180), and returns an already folded value unchanged.
C9_FoldsIntoHalfOpenAbove ==
  pc = "refolded" =>
    /\ ANGLE_MIN < folded /\ folded <= ANGLE_MAX
    /\ (folded - phi) % 360 = 0
    /\ refolded = folded

\* the boundary value -180 was folded, to 180, and folded again
C9_BoundaryFolded ==
  /\ pc = "refolded"
  /\ phi = ANGLE_MIN
  /\ folded = ANGLE_MAX
  /\ refolded = ANGLE_MAX

=============================================================================
